---------------------------- MODULE Spec2Model ----------------------------
(***************************************************************************)
(* Model of customer_data_extractor.py: the CustomerDataExtractor object   *)
(* (raw_data, vip_ids), its methods load_data, flatten_data and            *)
(* validate_data, and the __main__ script that runs them and writes the    *)
(* CSV file.                                                               *)
(*                                                                         *)
(* Raw (pickled) field values are dynamically typed.  A raw value is a     *)
(* record [t, v, s]: t = "none" (key missing or None), "int" (a Python     *)
(* int v), "str" (a Python str, s a sequence of one-character strings) or  *)
(* "date" (a value pandas parses as a calendar date, v its day number).    *)
(* Prices are whole numbers; total_order_value_percentage, a float in the  *)
(* code, is kept as the exact fraction [num, den] with den > 0.            *)
(***************************************************************************)
EXTENDS Integers, Sequences, FiniteSets, TLC

VARIABLES pc, raw_data, vip_ids, df, df2, error, report, csv

vars == <<pc, raw_data, vip_ids, df, df2, error, report, csv>>

-----------------------------------------------------------------------------
(* Bounds of the model *)

\* longest item list of an order in the item-level inputs
MaxItems == 2
\* longest order list of a customer in the order-level inputs
MaxOrders == 2
\* longest customer list in the customer-level inputs
MaxCustomers == 2

-----------------------------------------------------------------------------
(* Raw values *)

None == [t |-> "none", v |-> 0, s |-> <<>>]
I(n) == [t |-> "int", v |-> n, s |-> <<>>]
S(chars) == [t |-> "str", v |-> 0, s |-> chars]
DateV(n) == [t |-> "date", v |-> n, s |-> <<>>]

Digits == {"0", "1", "2", "3", "4", "5", "6", "7", "8", "9"}

DigitVal(c) ==
    CASE c = "0" -> 0 [] c = "1" -> 1 [] c = "2" -> 2 [] c = "3" -> 3
      [] c = "4" -> 4 [] c = "5" -> 5 [] c = "6" -> 6 [] c = "7" -> 7
      [] c = "8" -> 8 [] c = "9" -> 9

DigitChar(d) == <<"0", "1", "2", "3", "4", "5", "6", "7", "8", "9">>[d + 1]

\* the value of a sequence of decimal digits, most significant first
RECURSIVE DigitsValue(_)
DigitsValue(ds) ==
    IF ds = <<>> THEN 0
    ELSE 10 * DigitsValue(SubSeq(ds, 1, Len(ds) - 1)) + DigitVal(ds[Len(ds)])

RECURSIVE NatToStr(_)
NatToStr(n) ==
    IF n < 10 THEN <<DigitChar(n)>>
    ELSE NatToStr(n \div 10) \o <<DigitChar(n % 10)>>

\* str(x) of a raw int or str
PyStr(x) ==
    IF x.t = "str" THEN x.s
    ELSE IF x.v < 0 THEN <<"-">> \o NatToStr(-x.v) ELSE NatToStr(x.v)

\* str.strip(): leading and trailing blanks removed
RECURSIVE LStrip(_)
LStrip(s) == IF s # <<>> /\ Head(s) = " " THEN LStrip(Tail(s)) ELSE s

RECURSIVE RStrip(_)
RStrip(s) ==
    IF s # <<>> /\ s[Len(s)] = " " THEN RStrip(SubSeq(s, 1, Len(s) - 1)) ELSE s

Strip(s) == LStrip(RStrip(s))

AllDigits(s) == s # <<>> /\ \A k \in 1..Len(s) : s[k] \in Digits

\* int(s) of a str: blanks stripped, an optional sign, then decimal digits;
\* anything else raises ValueError (ok = FALSE)
IntOfStr(s) ==
    LET u == Strip(s)
        signed == u # <<>> /\ Head(u) \in {"+", "-"}
        body == IF signed THEN Tail(u) ELSE u
    IN  IF AllDigits(body)
        THEN [ok |-> TRUE,
              v |-> IF signed /\ Head(u) = "-" THEN -DigitsValue(body)
                    ELSE DigitsValue(body)]
        ELSE [ok |-> FALSE, v |-> 0]

\* int(x) of a raw value: TypeError on None, ValueError on a non-numeric str
PyInt(x) ==
    CASE x.t = "int" -> [ok |-> TRUE, v |-> x.v]
      [] x.t = "str" -> IntOfStr(x.s)
      [] OTHER -> [ok |-> FALSE, v |-> 0]

\* float(x) of a raw value, on the whole-number literals of the model
PyFloat(x) == PyInt(x)

\* re.search(r'\d+', s): the first maximal run of digits, int() of it
RECURSIVE DigitRunFrom(_, _)
DigitRunFrom(s, k) ==
    IF k > Len(s) \/ s[k] \notin Digits THEN <<>>
    ELSE <<s[k]>> \o DigitRunFrom(s, k + 1)

re_search_digits(s) ==
    LET starts == {k \in 1..Len(s) : s[k] \in Digits}
    IN  IF starts = {} THEN [ok |-> FALSE, v |-> 0]
        ELSE LET first == CHOOSE k \in starts : \A j \in starts : k <= j
             IN  [ok |-> TRUE, v |-> DigitsValue(DigitRunFrom(s, first))]

\* pd.to_datetime(x, errors='coerce'): NaT (ok = FALSE) for None and for
\* text that is no date
to_datetime(x) ==
    CASE x.t = "date" -> [ok |-> TRUE, v |-> x.v]
      [] x.t = "int" -> [ok |-> TRUE, v |-> x.v]
      [] OTHER -> [ok |-> FALSE, v |-> 0]

CATEGORY_MAP(code) ==
    CASE code.t = "int" /\ code.v = 1 -> "Electronics"
      [] code.t = "int" /\ code.v = 2 -> "Apparel"
      [] code.t = "int" /\ code.v = 3 -> "Books"
      [] code.t = "int" /\ code.v = 4 -> "Home Goods"
      [] OTHER -> "Misc"

-----------------------------------------------------------------------------
(* Arithmetic helpers *)

RECURSIVE SumSeq(_)
SumSeq(ns) == IF ns = <<>> THEN 0 ELSE Head(ns) + SumSeq(Tail(ns))

RECURSIVE Concat(_)
Concat(ss) == IF ss = <<>> THEN <<>> ELSE Head(ss) \o Concat(Tail(ss))

Abs(n) == IF n < 0 THEN -n ELSE n

RECURSIVE Gcd(_, _)
Gcd(a, b) == IF b = 0 THEN a ELSE Gcd(b, a % b)

\* the fraction n/d (d # 0) in lowest terms with a positive denominator
Frac(n, d) ==
    LET g == Gcd(Abs(n), Abs(d))
        sgn == IF d < 0 THEN -1 ELSE 1
    IN  [num |-> sgn * (n \div g), den |-> sgn * (d \div g)]

FracAdd(a, b) == Frac(a.num * b.den + b.num * a.den, a.den * b.den)

RECURSIVE FracSum(_)
FracSum(fs) == IF fs = <<>> THEN Frac(0, 1) ELSE FracAdd(Head(fs), FracSum(Tail(fs)))

-----------------------------------------------------------------------------
(* flatten_data *)

\* try: float(i.get("price", 0)) except (TypeError, ValueError): 0.0
item_price(item) == IF PyFloat(item.price).ok THEN PyFloat(item.price).v ELSE 0

\* try: int(i.get("quantity", 0)) except (TypeError, ValueError): 0
item_quantity(item) == IF PyInt(item.quantity).ok THEN PyInt(item.quantity).v ELSE 0

\* total_order summed over the items that will get a row only
total_order_valid_only(items) ==
    SumSeq([k \in 1..Len(items) |->
        IF items[k].item_id.t # "none" /\ IntOfStr(Strip(PyStr(items[k].item_id))).ok
        THEN item_price(items[k]) * item_quantity(items[k]) ELSE 0])

\* the first loop over items: total_order += price * quantity
total_order(items) ==
    SumSeq([k \in 1..Len(items) |-> item_price(items[k]) * item_quantity(items[k])])

\* the share guarded by "total_order > 0" instead of "total_order"
percentage_positive_only(total_price, total) ==
    IF total > 0 THEN Frac(total_price * 100, total) ELSE Frac(0, 1)

\* (total_price / total_order * 100) if total_order else 0
percentage(total_price, total) ==
    IF total # 0 THEN Frac(total_price * 100, total) ELSE Frac(0, 1)

\* an item skipped when its price does not convert either
item_id_ok_needs_price(item) ==
    /\ item.item_id.t # "none"
    /\ IntOfStr(Strip(PyStr(item.item_id))).ok
    /\ PyFloat(item.price).ok

\* pid_raw is None -> continue; int(str(pid_raw).strip()) raising -> continue
item_id_ok(item) ==
    /\ item.item_id.t # "none"
    /\ IntOfStr(Strip(PyStr(item.item_id))).ok

\* the dict appended to rows for one item
item_row(cid, name, reg_date, is_vip, oid_str, oid_num, odate, item, total) ==
    LET price == item_price(item)
        qty == item_quantity(item)
        total_price == price * qty
    IN  [customer_id |-> cid,
         customer_name |-> name,
         registration_date |-> reg_date,
         is_vip |-> is_vip,
         order_id |-> oid_str,
         order_id_num |-> oid_num,
         order_date |-> odate,
         product_id |-> IntOfStr(Strip(PyStr(item.item_id))).v,
         product_name |-> item.product_name.s,
         category |-> CATEGORY_MAP(item.category),
         unit_price |-> price,
         item_quantity |-> qty,
         total_item_price |-> total_price,
         total_order_value_percentage |-> percentage(total_price, total)]

\* the checks that skip an order: no order_id, no digit run, no order date
order_ok(order) ==
    /\ order.order_id.t # "none"
    /\ re_search_digits(PyStr(order.order_id)).ok
    /\ to_datetime(order.order_date).ok

\* the rows one order appends: none when the order is skipped
order_rows(cid, name, reg_date, is_vip, order) ==
    IF ~order_ok(order) THEN <<>>
    ELSE LET oid_str == PyStr(order.order_id)
             oid_num == re_search_digits(oid_str).v
             odate == to_datetime(order.order_date).v
             items == order.items
             total == total_order(items)
         IN  Concat([k \in 1..Len(items) |->
                 IF item_id_ok(items[k])
                 THEN <<item_row(cid, name, reg_date, is_vip, oid_str, oid_num,
                                 odate, items[k], total)>>
                 ELSE <<>>])

\* a customer kept whatever its registration date
customer_ok_no_date(customer) == customer.id.t # "none"

\* the checks that skip a customer: no id, no registration date
customer_ok(customer) ==
    /\ customer.id.t # "none"
    /\ to_datetime(customer.registration_date).ok

\* cid = int(cid_raw) is outside any try: a str that is no integer raises
customer_raises(customer) ==
    customer.id.t # "none" /\ ~PyInt(customer.id).ok

\* the rows one customer appends: none when the customer is skipped
customer_rows(customer, vips) ==
    IF ~customer_ok(customer) THEN <<>>
    ELSE LET cid == PyInt(customer.id).v
             orders == customer.orders
         IN  Concat([k \in 1..Len(orders) |->
                 order_rows(cid, customer.name.s,
                            to_datetime(customer.registration_date).v,
                            cid \in vips, orders[k])])

\* the loop over raw_data: the rows list, or the ValueError of int(cid_raw)
flatten_rows(raw, vips) ==
    IF \E k \in 1..Len(raw) : customer_raises(raw[k])
    THEN [raised |-> TRUE, error |-> "ValueError", rows |-> <<>>]
    ELSE [raised |-> FALSE, error |-> "",
          rows |-> Concat([k \in 1..Len(raw) |-> customer_rows(raw[k], vips)])]

\* the helper column left out of the sort
sort_key_no_order(r) == <<r.customer_id, 0, r.product_id>>

\* the sort key of sort_values(by=["customer_id", "order_id_num", "product_id"])
sort_key(r) == <<r.customer_id, r.order_id_num, r.product_id>>

KeyLeq(a, b) ==
    \/ a[1] < b[1]
    \/ a[1] = b[1] /\ a[2] < b[2]
    \/ a[1] = b[1] /\ a[2] = b[2] /\ a[3] <= b[3]

\* a row put into a sorted sequence after the rows whose key is <= its own
RECURSIVE InsertRow(_, _)
InsertRow(sorted, r) ==
    IF sorted = <<>> THEN <<r>>
    ELSE IF KeyLeq(sort_key(Head(sorted)), sort_key(r))
         THEN <<Head(sorted)>> \o InsertRow(Tail(sorted), r)
         ELSE <<r>> \o sorted

\* a sort that keeps one row per sort key
RECURSIVE sort_values_unique(_)
sort_values_unique(rows) ==
    IF rows = <<>> THEN <<>>
    ELSE LET front == sort_values_unique(SubSeq(rows, 1, Len(rows) - 1))
             r == rows[Len(rows)]
         IN  IF \E k \in 1..Len(front) : sort_key(front[k]) = sort_key(r)
             THEN front ELSE InsertRow(front, r)

\* df.sort_values(by=[...], ascending=True): pandas sorts several columns
\* with a stable lexicographic sort
RECURSIVE sort_values(_)
sort_values(rows) ==
    IF rows = <<>> THEN <<>>
    ELSE InsertRow(sort_values(SubSeq(rows, 1, Len(rows) - 1)), rows[Len(rows)])

\* df.drop(columns=["order_id_num"])
drop_helper(rows) ==
    [k \in 1..Len(rows) |->
        [f \in (DOMAIN rows[k]) \ {"order_id_num"} |-> rows[k][f]]]

\* df.astype({...}): the thirteen columns, each already of its type
astype(rows) ==
    [k \in 1..Len(rows) |->
        LET r == rows[k]
        IN  [customer_id |-> r.customer_id,
             customer_name |-> r.customer_name,
             registration_date |-> r.registration_date,
             is_vip |-> r.is_vip,
             order_id |-> r.order_id,
             order_date |-> r.order_date,
             product_id |-> r.product_id,
             product_name |-> r.product_name,
             category |-> r.category,
             unit_price |-> r.unit_price,
             item_quantity |-> r.item_quantity,
             total_item_price |-> r.total_item_price,
             total_order_value_percentage |-> r.total_order_value_percentage]]

\* the whole call: the returned table, or the exception it ends with.
\* pd.DataFrame([]) has no columns, so sort_values raises KeyError on it.
flatten(raw, vips) ==
    LET got == flatten_rows(raw, vips)
    IN  IF got.raised THEN [called |-> TRUE, raised |-> TRUE, error |-> got.error, rows |-> <<>>]
        ELSE IF got.rows = <<>>
        THEN [called |-> TRUE, raised |-> TRUE, error |-> "KeyError", rows |-> <<>>]
        ELSE [called |-> TRUE, raised |-> FALSE, error |-> "",
              rows |-> astype(drop_helper(sort_values(got.rows)))]

-----------------------------------------------------------------------------
(* validate_data *)

\* the sum of total_order_value_percentage over one (customer_id, order_id) group
group_percent(rows, g) ==
    LET ks == {k \in 1..Len(rows) : <<rows[k].customer_id, rows[k].order_id>> = g}
        RECURSIVE Over(_)
        Over(s) == IF s = {} THEN Frac(0, 1)
                   ELSE LET k == CHOOSE x \in s : TRUE
                        IN  FracAdd(rows[k].total_order_value_percentage, Over(s \ {k}))
    IN  Over(ks)

\* the counts the report prints (the table has no missing values here)
validate(rows) ==
    LET idx == 1..Len(rows)
        groups == {<<rows[k].customer_id, rows[k].order_id>> : k \in idx}
    IN  [made |-> TRUE,
         neg_price |-> Cardinality({k \in idx : rows[k].unit_price < 0}),
         neg_total_price |-> Cardinality({k \in idx : rows[k].total_item_price < 0}),
         neg_qty |-> Cardinality({k \in idx : rows[k].item_quantity < 0}),
         bad_dates |-> Cardinality({k \in idx :
                           rows[k].order_date < rows[k].registration_date}),
         zero_qty |-> Cardinality({k \in idx : rows[k].item_quantity <= 0}),
         dup |-> Cardinality({k \in idx : \E j \in 1..(k - 1) : rows[j] = rows[k]}),
         inconsistent_orders |-> Cardinality({g \in groups :
             LET p == group_percent(rows, g)
             IN  p.num * 10 < 999 * p.den \/ p.num * 10 > 1001 * p.den})]

-----------------------------------------------------------------------------
(* The files a run reads *)

Customer(id, reg, orders) ==
    [id |-> id, name |-> S(<<"A">>), registration_date |-> reg, orders |-> orders]

Order(oid, date, items) == [order_id |-> oid, order_date |-> date, items |-> items]

Item(id, cat, price, qty) ==
    [item_id |-> id, product_name |-> S(<<"p">>), category |-> cat,
     price |-> price, quantity |-> qty]

\* item-level inputs: one well-formed customer and order, every item list
ItemIds == {S(<<"x">>), I(1), S(<<" ", "2", " ">>)}
Prices == {S(<<"a", "b", "c">>), I(5), I(-5)}
Quantities == {S(<<"x">>), I(1), S(<<"2">>)}

ItemDomain == {Item(id, I(2), p, q) : id \in ItemIds, p \in Prices, q \in Quantities}

ItemInput(items) ==
    <<Customer(I(1), DateV(1), <<Order(S(<<"O", "R", "D", "-", "7">>), DateV(2), items)>>)>>

\* order-level inputs: one well-formed customer, every order list
OrderIds == {None, S(<<"O", "R", "D">>), S(<<"O", "R", "D", "-", "9">>),
             S(<<"O", "R", "D", "-", "1", "0">>)}
OrderDates == {DateV(2), S(<<"n", "/", "a">>)}
ItemLists ==
    {<<Item(I(2), I(99), I(5), I(1)), Item(I(1), None, None, I(2))>>,
     <<Item(None, I(3), I(5), I(1)), Item(I(1), I(4), I(5), None)>>}

OrderDomain == {Order(oid, d, items) : oid \in OrderIds, d \in OrderDates, items \in ItemLists}

OrderInput(orders) == <<Customer(I(1), DateV(1), orders)>>

\* customer-level inputs: every customer list
CustomerIds == {None, S(<<"a", "b", "c">>), I(2), S(<<"1">>)}
RegistrationDates == {DateV(3), S(<<"b", "a", "d">>)}
OrderLists ==
    {<<>>,
     <<Order(S(<<"O", "R", "D", "-", "1", "0">>), DateV(4), <<Item(I(1), I(1), I(5), I(1))>>),
       Order(I(9), DateV(2), <<Item(I(2), I(2), I(-5), I(1))>>)>>}

CustomerDomain ==
    {Customer(id, reg, orders) : id \in CustomerIds, reg \in RegistrationDates,
                                 orders \in OrderLists}

\* the lines of the VIP file
VipFiles == {<<>>, <<<<" ", "2">>, <<"1">>>>}

-----------------------------------------------------------------------------
(* The object and the script *)

NoTable == [called |-> FALSE, raised |-> FALSE, error |-> "", rows |-> <<>>]
NoReport ==
    [made |-> FALSE, neg_price |-> 0, neg_total_price |-> 0, neg_qty |-> 0,
     bad_dates |-> 0, zero_qty |-> 0, dup |-> 0, inconsistent_orders |-> 0]
NoCsv == [written |-> FALSE, rows |-> <<>>]

\* __init__, and the script about to call load_data
Init ==
    /\ pc = "start"
    /\ raw_data = <<>>
    /\ vip_ids = {}
    /\ df = NoTable
    /\ df2 = NoTable
    /\ error = ""
    /\ report = NoReport
    /\ csv = NoCsv

\* load_data on a pickle file (readable or not) holding data and a VIP file
\* holding vip_lines: raw_data is assigned before the VIP file is read, so
\* a bad VIP line leaves raw_data loaded and the run dead
load(readable, data, vip_lines) ==
    /\ IF ~readable
       THEN /\ pc' = "failed"
            /\ error' = "load"
            /\ UNCHANGED <<raw_data, vip_ids>>
       ELSE /\ raw_data' = data
            /\ IF \A k \in 1..Len(vip_lines) : IntOfStr(Strip(vip_lines[k])).ok
               THEN /\ vip_ids' = {IntOfStr(Strip(vip_lines[k])).v : k \in 1..Len(vip_lines)}
                    /\ pc' = "loaded"
                    /\ error' = ""
               ELSE /\ pc' = "failed"
                    /\ error' = "load"
                    /\ UNCHANGED vip_ids
    /\ UNCHANGED <<df, df2, report, csv>>

\* extractor.load_data(), on the files the run may find
load_data ==
    /\ pc = "start"
    /\ \/ \E n \in 0..MaxItems : \E items \in [1..n -> ItemDomain] :
              load(TRUE, ItemInput(items), <<<<"1">>>>)
       \/ \E n \in 0..MaxOrders : \E orders \in [1..n -> OrderDomain] :
              load(TRUE, OrderInput(orders), <<<<"1">>>>)
       \/ \E n \in 0..MaxCustomers : \E customers \in [1..n -> CustomerDomain] :
              \E v \in VipFiles : load(TRUE, customers, v)
       \/ load(TRUE, <<Customer(I(1), DateV(1), <<>>)>>, <<<<"1">>, <<>>>>)
       \/ load(FALSE, <<>>, <<>>)

\* a flatten_data that empties raw_data as it reads it
flatten_data_consuming ==
    /\ pc = "loaded"
    /\ df' = flatten(raw_data, vip_ids)
    /\ pc' = IF df'.raised THEN "failed" ELSE "flattened"
    /\ error' = df'.error
    /\ raw_data' = <<>>
    /\ UNCHANGED <<vip_ids, df2, report, csv>>

\* df = extractor.flatten_data(); an exception ends the script
flatten_data ==
    /\ pc = "loaded"
    /\ df' = flatten(raw_data, vip_ids)
    /\ pc' = IF df'.raised THEN "failed" ELSE "flattened"
    /\ error' = df'.error
    /\ UNCHANGED <<raw_data, vip_ids, df2, report, csv>>

\* extractor.validate_data(df)
validate_data ==
    /\ pc = "flattened"
    /\ report' = validate(df.rows)
    /\ pc' = "validated"
    /\ UNCHANGED <<raw_data, vip_ids, df, df2, error, csv>>

\* the file written before the validation
to_csv_unvalidated ==
    /\ pc = "flattened"
    /\ csv' = [written |-> TRUE, rows |-> df.rows]
    /\ pc' = "written"
    /\ UNCHANGED <<raw_data, vip_ids, df, df2, error, report>>

\* df.to_csv("final_customer_orders.csv", index=False)
to_csv ==
    /\ pc = "validated"
    /\ csv' = [written |-> TRUE, rows |-> df.rows]
    /\ pc' = "written"
    /\ UNCHANGED <<raw_data, vip_ids, df, df2, error, report>>

Next == load_data \/ flatten_data \/ validate_data \/ to_csv

Spec == Init /\ [][Next]_vars

\* a caller that calls flatten_data a second time on the same object
flatten_again ==
    /\ pc \in {"flattened", "failed"}
    /\ df.called
    /\ ~df2.called
    /\ df2' = flatten(raw_data, vip_ids)
    /\ pc' = "again"
    /\ UNCHANGED <<raw_data, vip_ids, df, error, report, csv>>

NextTwice == load_data \/ flatten_data \/ flatten_again

SpecTwice == Init /\ [][NextTwice]_vars

-----------------------------------------------------------------------------
(* What the claims speak of, stated on the raw records *)

\* flatten_data returned a table
Table == df.called /\ ~df.raised

\* missing or non-numeric: the value int()/float() cannot convert
Defective(x) == x.t = "none" \/ (x.t = "str" /\ ~IntOfStr(x.s).ok)

ValidCustomer(c) == ~Defective(c.id) /\ to_datetime(c.registration_date).ok

ValidOrder(o) ==
    /\ o.order_id.t # "none"
    /\ \E k \in 1..Len(PyStr(o.order_id)) : PyStr(o.order_id)[k] \in Digits
    /\ to_datetime(o.order_date).ok

ValidItem(it) == it.item_id.t # "none" /\ IntOfStr(PyStr(it.item_id)).ok

\* <<c, o>>: order o of customer c passed customer- and order-level validation
SurvivingOrders ==
    UNION {{<<c, o>> : o \in {x \in 1..Len(raw_data[c].orders) :
                                  ValidOrder(raw_data[c].orders[x])}} :
           c \in {x \in 1..Len(raw_data) : ValidCustomer(raw_data[x])}}

\* <<c, o, i>>: item i of a surviving order passed item-level validation
SurvivingItems ==
    UNION {{<<p[1], p[2], i>> : i \in {x \in 1..Len(raw_data[p[1]].orders[p[2]].items) :
                                  ValidItem(raw_data[p[1]].orders[p[2]].items[x])}} :
           p \in SurvivingOrders}

OrderAt(p) == raw_data[p[1]].orders[p[2]]
ItemAt(q) == raw_data[q[1]].orders[q[2]].items[q[3]]

\* price and quantity with the zero fallback
PriceOf(it) == IF Defective(it.price) THEN 0 ELSE PyInt(it.price).v
QuantityOf(it) == IF Defective(it.quantity) THEN 0 ELSE PyInt(it.quantity).v

\* the sum of price x quantity over the raw item list
RECURSIVE RawTotal(_)
RawTotal(items) ==
    IF items = <<>> THEN 0
    ELSE PriceOf(Head(items)) * QuantityOf(Head(items)) + RawTotal(Tail(items))

\* the sum of price x quantity over the items that pass item-level validation
RECURSIVE EmittedTotal(_)
EmittedTotal(items) ==
    IF items = <<>> THEN 0
    ELSE (IF ValidItem(Head(items)) THEN PriceOf(Head(items)) * QuantityOf(Head(items)) ELSE 0)
         + EmittedTotal(Tail(items))

\* row r of the table is the row of surviving item q
RowOf(r, q) ==
    /\ r.customer_id = PyInt(raw_data[q[1]].id).v
    /\ r.is_vip = (PyInt(raw_data[q[1]].id).v \in vip_ids)
    /\ r.registration_date = to_datetime(raw_data[q[1]].registration_date).v
    /\ r.order_id = PyStr(OrderAt(q).order_id)
    /\ r.order_date = to_datetime(OrderAt(q).order_date).v
    /\ r.product_id = IntOfStr(PyStr(ItemAt(q).item_id)).v
    /\ r.unit_price = PriceOf(ItemAt(q))
    /\ r.item_quantity = QuantityOf(ItemAt(q))

\* the sort key recomputed from the output columns
OutKey(r) ==
    <<r.customer_id,
      DigitsValue(DigitRunFrom(r.order_id,
          CHOOSE k \in 1..Len(r.order_id) :
              r.order_id[k] \in Digits /\ \A j \in 1..(k - 1) : r.order_id[j] \notin Digits)),
      r.product_id>>

\* the rows flatten_data appends for surviving order p
EmittedRows(p) ==
    order_rows(PyInt(raw_data[p[1]].id).v, raw_data[p[1]].name.s,
               to_datetime(raw_data[p[1]].registration_date).v,
               PyInt(raw_data[p[1]].id).v \in vip_ids, OrderAt(p))

PercentSum(rs) == FracSum([k \in 1..Len(rs) |-> rs[k].total_order_value_percentage])

-----------------------------------------------------------------------------
(* The claims *)

\* C1 (as claimed): in the returned table, the percentage shares of the rows
\* of every surviving order with total_order > 0 sum to 100, also when some
\* of the order's items fail item-level validation.
C1_SharesSumTo100 ==
    Table =>
        \A p \in SurvivingOrders :
            RawTotal(OrderAt(p).items) > 0 =>
                PercentSum(EmittedRows(p)) = Frac(100, 1)

\* C2 (as claimed): flatten_data never raises on malformed records; it
\* returns a table, possibly with zero rows.
C2_NeverRaises == df.called => ~df.raised

\* C3: every row of the returned table comes from an item whose customer,
\* order and item all passed validation; a customer, order or item that
\* fails its level's validation contributes no row.
C3_RowsFromValidRecords ==
    Table =>
        LET surviving == SurvivingItems
        IN  \A k \in 1..Len(df.rows) : \E q \in surviving : RowOf(df.rows[k], q)

C3_Witness ==
    /\ Table
    /\ \E c \in 1..Len(raw_data) :
          /\ ~ValidCustomer(raw_data[c])
          /\ \E o \in 1..Len(raw_data[c].orders) :
                ValidOrder(raw_data[c].orders[o]) /\ raw_data[c].orders[o].items # <<>>

\* C4: the rows of the returned table are in ascending order of (customer_id,
\* number in order_id, product_id), and the table has no order_id_num column.
C4_SortedByKey ==
    Table =>
        /\ \A i \in 1..Len(df.rows) : \A j \in (i + 1)..Len(df.rows) :
              KeyLeq(OutKey(df.rows[i]), OutKey(df.rows[j]))
        /\ \A i \in 1..Len(df.rows) : "order_id_num" \notin DOMAIN df.rows[i]

\* the rows were appended out of order, and by order number, not order text
C4_Witness ==
    /\ Table
    /\ LET rows == flatten_rows(raw_data, vip_ids).rows
       IN  \E i \in 1..Len(rows) : \E j \in (i + 1)..Len(rows) :
              /\ rows[i].customer_id = rows[j].customer_id
              /\ rows[i].order_id_num > rows[j].order_id_num

\* C5 (as claimed): the percentage shares of a surviving order's rows sum to
\* 0 only when every item of the order has price x quantity = 0.
C5_ZeroOnlyWhenAllZero ==
    Table =>
        \A p \in SurvivingOrders :
            PercentSum(EmittedRows(p)).num = 0 =>
                \A k \in 1..Len(OrderAt(p).items) :
                    PriceOf(OrderAt(p).items[k]) * QuantityOf(OrderAt(p).items[k]) = 0

\* C5 (amended): the percentage shares of a surviving order's rows, all of
\* them rows of the returned table, sum to 0 exactly when total_order is 0
\* or the price x quantity of the emitted rows sum to 0.
C5_ZeroWhenTotalsZero ==
    Table =>
        \A p \in SurvivingOrders :
            LET rs == EmittedRows(p)
                out == astype(drop_helper(rs))
            IN  /\ \A k \in 1..Len(out) : \E j \in 1..Len(df.rows) : df.rows[j] = out[k]
                /\ (PercentSum(rs).num = 0) <=>
                      (RawTotal(OrderAt(p).items) = 0 \/ EmittedTotal(OrderAt(p).items) = 0)

\* an order whose items all pass validation and cancel: 5 x 1 and -5 x 1
C5_Witness ==
    /\ Table
    /\ \E p \in SurvivingOrders :
          /\ \A k \in 1..Len(OrderAt(p).items) : ValidItem(OrderAt(p).items[k])
          /\ \E k \in 1..Len(OrderAt(p).items) :
                PriceOf(OrderAt(p).items[k]) * QuantityOf(OrderAt(p).items[k]) < 0
          /\ RawTotal(OrderAt(p).items) = 0

\* C6: an item with a missing or non-numeric price or quantity is not
\* skipped: its row is in the returned table with 0 in the defective field,
\* the other field as parsed and total_item_price = 0; it adds nothing to
\* total_order; and every row has total_item_price = unit_price x quantity.
C6_ZeroFallback ==
    Table =>
        /\ \A q \in SurvivingItems :
              (Defective(ItemAt(q).price) \/ Defective(ItemAt(q).quantity)) =>
                  /\ \E k \in 1..Len(df.rows) :
                        /\ RowOf(df.rows[k], q)
                        /\ Defective(ItemAt(q).price) => df.rows[k].unit_price = 0
                        /\ Defective(ItemAt(q).quantity) => df.rows[k].item_quantity = 0
                        /\ df.rows[k].total_item_price = 0
                        /\ df.rows[k].total_order_value_percentage.num = 0
                  /\ LET items == OrderAt(q).items
                     IN  total_order(items) =
                            total_order(SubSeq(items, 1, q[3] - 1)
                                        \o SubSeq(items, q[3] + 1, Len(items)))
        /\ \A k \in 1..Len(df.rows) :
              df.rows[k].total_item_price = df.rows[k].unit_price * df.rows[k].item_quantity

\* price "abc" with quantity 2, beside an item that gives the order a total
C6_Witness ==
    /\ Table
    /\ \E q \in SurvivingItems :
          /\ Defective(ItemAt(q).price)
          /\ QuantityOf(ItemAt(q)) = 2
          /\ RawTotal(OrderAt(q).items) # 0

\* C7: the returned table has exactly one row per item that passes
\* item-level validation inside a surviving order.
C7_OneRowPerItem == Table => Len(df.rows) = Cardinality(SurvivingItems)

\* two rows with the same sort key, and an item that was skipped
C7_Witness ==
    /\ Table
    /\ \E i \in 1..Len(df.rows) : \E j \in (i + 1)..Len(df.rows) :
          OutKey(df.rows[i]) = OutKey(df.rows[j])
    /\ \E c \in 1..Len(raw_data) : \E o \in 1..Len(raw_data[c].orders) :
          \E i \in 1..Len(raw_data[c].orders[o].items) :
              ~ValidItem(raw_data[c].orders[o].items[i])

C9_TotalOverRawItems ==
    LET Share(q) ==
            IF RawTotal(OrderAt(q).items) = 0 THEN Frac(0, 1)
            ELSE Frac(PriceOf(ItemAt(q)) * QuantityOf(ItemAt(q)) * 100,
                      RawTotal(OrderAt(q).items))
        surviving == SurvivingItems
    IN  Table =>
            /\ \A q \in surviving : \E k \in 1..Len(df.rows) :
                  /\ RowOf(df.rows[k], q)
                  /\ df.rows[k].total_order_value_percentage = Share(q)
            /\ \A k \in 1..Len(df.rows) : \E q \in surviving :
                  /\ RowOf(df.rows[k], q)
                  /\ df.rows[k].total_order_value_percentage = Share(q)

\* an order with a skipped item that counts in the total, and a row
C9_Witness ==
    /\ Table
    /\ \E q \in SurvivingItems :
          /\ PriceOf(ItemAt(q)) * QuantityOf(ItemAt(q)) # 0
          /\ \E i \in 1..Len(OrderAt(q).items) :
                /\ ~ValidItem(OrderAt(q).items[i])
                /\ PriceOf(OrderAt(q).items[i]) * QuantityOf(OrderAt(q).items[i]) # 0
          /\ RawTotal(OrderAt(q).items) # 0

\* C10: the CSV file is written only after flatten_data returned and
\* validate_data ran, and holds the whole table; a run that failed has
\* written nothing.
C10_WriteLast ==
    /\ csv.written =>
          /\ pc = "written"
          /\ Table
          /\ report.made
          /\ csv.rows = df.rows
    /\ pc = "failed" => ~csv.written

C10_Witness == pc = "written" /\ Len(csv.rows) >= 2

=============================================================================
